---------------------------- MODULE Spec2Model ----------------------------
(***************************************************************************)
(* Model of the SwgTestSuite load generator (src/client/client_tests.py): *)
(* the target selector create_request_url, the connection workers, the    *)
(* supervisor run_client and the statistics aggregator                    *)
(* aggregate_statistics.                                                   *)
(*                                                                         *)
(* Conventions.                                                            *)
(*  - A path is a sequence of one-character strings, so that              *)
(*    path.split('.')[-1].lower() is computed and not assumed.             *)
(*  - Sizes (MB) are integers counted in hundredths of a megabyte, the    *)
(*    precision of the manifest ("%.2fMB"); the size h stands for the      *)
(*    double nearest to h/100, and comparisons of sizes are those of the   *)
(*    doubles.                                                             *)
(*  - Python lists are 0-based, sequences here are 1-based: index k of    *)
(*    the model is index k-1 of the code.                                  *)
(*  - Clock readings are integers counted in milliseconds.                *)
(***************************************************************************)
EXTENDS Integers, Sequences, FiniteSets, TLC

VARIABLES
    config,               \* run_client: the manifest, a list of (path, size_mb)
    https_percent,        \* run_client argument
    avg_object_size_mb,   \* run_client argument
    sel,                  \* last outcome of a direct call of create_request_url
    max_connections,      \* run_client argument
    duration,             \* run_client argument, seconds
    process_count,        \* os.cpu_count() or 1
    now,                  \* the clock, milliseconds
    supPc,                \* where run_client stands
    spawned,              \* processes started so far (len(processes))
    procState,            \* per worker process: "none", "running", "dead", "terminated"
    wk,                   \* per worker process, its connection workers
    pipes,                \* per channel, the samples sent and not yet received
    childHeld,            \* per channel, who holds the sending end open
    parentOpen,           \* per channel, whether the supervisor's end is open
    nsent,                \* samples put on the channels so far
    aggPc,                \* where aggregate_statistics stands
    pipeIdx,              \* the pipe the drain loop is at
    start_time, last_time, current_time,
    interval_bytes, interval_completed,
    drained,              \* history: the samples received since the last report
    reports,              \* the report lines printed
    sigintHandler,        \* the supervisor's disposition of SIGINT
    interrupted,          \* history: a SIGINT was delivered to the supervisor
    shares,               \* run_client: the connection count handed to each process
    variants              \* gen_content.create_size_variants: its locals

inputVars == <<config, https_percent, avg_object_size_mb, max_connections,
               duration, process_count>>
supVars == <<supPc, spawned, procState, parentOpen>>
chanVars == <<pipes, childHeld, nsent>>
aggVars == <<aggPc, pipeIdx, start_time, last_time, current_time,
             interval_bytes, interval_completed, drained, reports>>
sigVars == <<sigintHandler, interrupted>>
pureVars == <<shares, variants>>

vars == <<config, https_percent, avg_object_size_mb, max_connections,
          duration, process_count, sel, now, supPc, spawned, procState, wk,
          pipes, childHeld, parentOpen, nsent, aggPc, pipeIdx, start_time,
          last_time, current_time, interval_bytes, interval_completed,
          drained, reports, sigintHandler, interrupted, shares, variants>>

----------------------------------------------------------------------------
(* Bounds of the model *)

MaxManifest == 3      \* longest manifest drawn
RandRes == 4          \* random.random() is drawn from {0/RandRes .. (RandRes-1)/RandRes}
TickMs == 500         \* the clock advances in steps of TickMs milliseconds
MaxOverrun == 500     \* the clock stops advancing this long after the deadline
PipeCap == 2          \* samples a channel buffers before send blocks
MaxSends == 3         \* samples put on the synthetic channels
RunSends == 2         \* samples the connection workers of one run send

----------------------------------------------------------------------------
(* Strings as sequences of characters *)

Str_bin  == <<"b", "i", "n">>
Str_zip  == <<"z", "i", "p">>
Str_docx == <<"d", "o", "c", "x">>

UpperLetters ==
    <<"A", "B", "C", "D", "E", "F", "G", "H", "I", "J", "K", "L", "M",
      "N", "O", "P", "Q", "R", "S", "T", "U", "V", "W", "X", "Y", "Z">>

LowerLetters ==
    <<"a", "b", "c", "d", "e", "f", "g", "h", "i", "j", "k", "l", "m",
      "n", "o", "p", "q", "r", "s", "t", "u", "v", "w", "x", "y", "z">>

UpperSet == {UpperLetters[k] : k \in 1..Len(UpperLetters)}

\* the lower-case letter of each upper-case letter
ToLower ==
    [c \in UpperSet |->
         LowerLetters[CHOOSE k \in 1..Len(UpperLetters) : UpperLetters[k] = c]]

\* str.lower() on one character: an upper-case letter becomes its lower-case
\* letter, any other character of the ASCII range stays
LowerChar(c) == IF c \in UpperSet THEN ToLower[c] ELSE c

\* str.lower()
Lower(s) == [k \in 1..Len(s) |-> LowerChar(s[k])]

\* path.split('.')[-1]: what follows the last '.', the whole string without one
RECURSIVE LastField(_)
LastField(s) ==
    IF s = <<>> THEN <<>>
    ELSE IF s[Len(s)] = "." THEN <<>>
    ELSE Append(LastField(SubSeq(s, 1, Len(s) - 1)), s[Len(s)])

\* file_type = path.split('.')[-1].lower()
FileType(path) == Lower(LastField(path))

Abs(x) == IF x < 0 THEN -x ELSE x

----------------------------------------------------------------------------
(* create_request_url, lines 64-104 *)

(* Sizes are Python floats: the size h hundredths of a megabyte is the double *)
(* fl(h/100) nearest to h/100, i.e. m / 2^e with 2^52 <= m < 2^53.  The      *)
(* definitions below compute, with small integers, how far this double is   *)
(* from h/100.                                                               *)

\* floor(log2(h / den)), for h > 0
RECURSIVE BinadeOf(_, _)
BinadeOf(h, den) ==
    IF h >= 2 * den THEN BinadeOf(h, 2 * den) + 1
    ELSE IF h < den THEN BinadeOf(2 * h, den) - 1
    ELSE 0

\* the bits of the significand of a double, less one
SignificandBits == 52

\* the e of fl(h/100) = m / 2^e
ScaleOf(h) == SignificandBits - BinadeOf(h, 100)

\* 2^e mod 100, by repeated squaring
RECURSIVE Pow2Mod100(_)
Pow2Mod100(e) ==
    IF e = 0 THEN 1
    ELSE LET half == Pow2Mod100(e \div 2)
         IN  IF e % 2 = 0 THEN (half * half) % 100
             ELSE (2 * half * half) % 100

RECURSIVE Pow2(_)
Pow2(e) == IF e = 0 THEN 1 ELSE 2 * Pow2(e - 1)

\* 100 * m - h * 2^e: the rounding error of fl(h/100), in units of
\* 1 / (100 * 2^e); round-to-nearest, and a tie cannot occur
RoundingError(h) ==
    LET r == ((h % 100) * Pow2Mod100(ScaleOf(h))) % 100
    IN  IF r < 50 THEN -r ELSE 100 - r

\* fl(3k/100) < 3 * fl(k/100)
TripleRoundsBelow(k) ==
    RoundingError(3 * k) * Pow2(ScaleOf(k) - ScaleOf(3 * k))
        < 3 * RoundingError(k)

\* abs(size - avg_object_size_mb) < 0.5 * avg_object_size_mb, on doubles.
\* Off the bounds the rounding errors are far smaller than the hundredth that
\* separates the two sides.  At the lower bound, size = avg / 2, both sides
\* are the same double.  At the upper bound, size = 3k/100 and avg = 2k/100,
\* the difference fl(3k/100) - 2 * fl(k/100) is exact and is compared with
\* fl(k/100).
IsClose(size, avg) ==
    \/ 2 * Abs(size - avg) < avg
    \/ /\ 2 * Abs(size - avg) = avg
       /\ size > avg
       /\ TripleRoundsBelow(avg \div 2)

IndexSeq(n) == [k \in 1..n |-> k]

\* close_files / other_files: the indices, in manifest order
close_files(cfg, avg) ==
    SelectSeq(IndexSeq(Len(cfg)), LAMBDA k : IsClose(cfg[k][2], avg))

other_files(cfg, avg) ==
    SelectSeq(IndexSeq(Len(cfg)), LAMBDA k : ~IsClose(cfg[k][2], avg))

\* a slip: the candidates are always the full manifest
candidate_files_all(cfg, avg) == IndexSeq(Len(cfg))

\* candidate_files = close_files if close_files else other_files
candidate_files(cfg, avg) ==
    IF close_files(cfg, avg) # <<>> THEN close_files(cfg, avg)
    ELSE other_files(cfg, avg)

\* file_weights.get(ftype, 0.0), in tenths
WeightDen == 10
\* a slip: docx weighted 0.1, as the comment on line 84 says
file_weights_docx10(ftype) ==
    CASE ftype = Str_bin  -> 4
      [] ftype = Str_zip  -> 4
      [] ftype = Str_docx -> 1
      [] OTHER -> 0

file_weights(ftype) ==
    CASE ftype = Str_bin  -> 4
      [] ftype = Str_zip  -> 4
      [] ftype = Str_docx -> 2
      [] OTHER -> 0

\* int(weight * 100)
Copies(weight) == (weight * 100) \div WeightDen

Repeat(x, n) == [k \in 1..n |-> x]

\* weighted_files: each candidate index repeated int(weight * 100) times
RECURSIVE WeightedOf(_, _)
WeightedOf(cfg, cands) ==
    IF cands = <<>> THEN <<>>
    ELSE LET idx == Head(cands)
             weight == file_weights(FileType(cfg[idx][1]))
         IN  (IF weight > 0 THEN Repeat(idx, Copies(weight)) ELSE <<>>)
                 \o WeightedOf(cfg, Tail(cands))

weighted_files(cfg, avg) == WeightedOf(cfg, candidate_files(cfg, avg))

\* scheme = "https" if random.random() < https_percent / 100 else "http",
\* the draw being r / RandRes
SchemeOf_le(r, pct) == IF r * 100 <= pct * RandRes THEN "https" ELSE "http"

SchemeOf(r, pct) == IF r * 100 < pct * RandRes THEN "https" ELSE "http"

\* 8443 if scheme == 'https' else 8080
PortOf(scheme) == IF scheme = "https" THEN 8443 ELSE 8080

\* f"{scheme}://{server_ip}:{port}/{path}" and the draws that led to it
Returned(cfg, index, r, pct) ==
    [status |-> "ok", exc |-> "none", index |-> index, draw |-> r,
     scheme |-> SchemeOf(r, pct), port |-> PortOf(SchemeOf(r, pct)),
     path |-> cfg[index][1]]

Raised(exc) ==
    [status |-> "raise", exc |-> exc, index |-> 0, draw |-> 0,
     scheme |-> "none", port |-> 0, path |-> <<>>]

\* line 96, random.choice([i for i, _, _ in config]): unpacking an entry that is
\* not a 3-tuple raises ValueError; choosing from an empty list raises IndexError;
\* a chosen first component is then used as the index into config (TypeError
\* unless it is an integer in range)
FallbackOutcomes(cfg, pct) ==
    IF \E k \in 1..Len(cfg) : Len(cfg[k]) # 3 THEN {Raised("ValueError")}
    ELSE IF cfg = <<>> THEN {Raised("IndexError")}
    ELSE {IF cfg[k][1] \in 1..Len(cfg)
              THEN Returned(cfg, cfg[k][1], r, pct)
              ELSE Raised("TypeError") : k \in 1..Len(cfg), r \in 0..(RandRes - 1)}

\* every outcome a call of create_request_url can have
create_request_url(cfg, pct, avg) ==
    LET pool == weighted_files(cfg, avg)
    IN  IF pool = <<>> THEN FallbackOutcomes(cfg, pct)
        ELSE {Returned(cfg, index, r, pct) :
                  index \in {pool[k] : k \in 1..Len(pool)}, r \in 0..(RandRes - 1)}

----------------------------------------------------------------------------
(* Inputs drawn *)

\* (path, size_mb) pairs as run_client parses them; sizes 1MB .. 4MB, and one
\* file of 0.21MB, which the float comparison of line 72 finds close to a
\* size_affinity of 0.14MB although it lies exactly 50% above it
Entries ==
    { <<<<"f", ".", "Z", "i", "p">>, 21>>,
      <<<<"a", ".", "b", "i", "n">>, 100>>,
      <<<<"b", ".", "z", "i", "p">>, 200>>,
      <<<<"c", ".", "d", "o", "c", "x">>, 200>>,
      <<<<"c", ".", "d", "o", "c", "x">>, 400>>,
      <<<<"d", ".", "p", "d", "f">>, 200>>,
      <<<<"e", ".", "B", "I", "N">>, 300>>,
      <<<<"n", "o", "e", "x", "t">>, 200>> }

Affinities == {14, 200}                \* size_affinity 0.14MB, 2MB
Mixes == {0, 50, 100}                  \* protocol_mix

ManifestsOfLen(n) == [1..n -> Entries]

Manifests == UNION {ManifestsOfLen(n) : n \in 0..MaxManifest}

NoCall == Raised("not called")

----------------------------------------------------------------------------
(* create_size_variants, src/server/gen_content.py lines 113-120 *)

KbPerMb == 1024

\* line 117: the bound of the loop, in KB
SizeLimitKb == 520 * KbPerMb

\* no call of create_size_variants is in progress
NoVariants == [pc |-> "idle", base_size_kb |-> 0, current_size |-> 0,
               sizes_kb |-> <<>>]

\* lines 115-116: sizes_kb = [], current_size = base_size_kb
VariantsEnter ==
    /\ variants.pc = "call"
    /\ variants' = [variants EXCEPT !.pc = "loop", !.sizes_kb = <<>>,
                                     !.current_size = variants.base_size_kb]
    /\ UNCHANGED <<inputVars, sigVars, shares, sel, now, supVars, wk, chanVars,
                   aggVars>>

\* lines 117-120: one test of the loop condition, then one iteration or the
\* return
VariantsLoop ==
    /\ variants.pc = "loop"
    /\ IF variants.current_size <= SizeLimitKb
           THEN variants' = [variants EXCEPT
                                !.sizes_kb = Append(@, variants.current_size),
                                !.current_size = @ * 2]
           ELSE variants' = [variants EXCEPT !.pc = "return"]
    /\ UNCHANGED <<inputVars, sigVars, shares, sel, now, supVars, wk, chanVars,
                   aggVars>>

----------------------------------------------------------------------------
(* The clock *)

MsPerSec == 1000

\* Nothing reads the clock before aggregate_statistics takes start_time, so
\* the clock is started there.
Tick ==
    /\ aggPc # "idle"
    /\ now + TickMs <= start_time + duration * MsPerSec + MaxOverrun
    /\ now' = now + TickMs
    /\ UNCHANGED <<inputVars, pureVars, sigVars, sel, supVars, wk, chanVars, aggVars>>

----------------------------------------------------------------------------
(* aggregate_statistics, lines 142-181 *)

Procs == 1..process_count

\* pipe.poll(): something to read, a sample or end-of-stream
AtEOF(p) == pipes[p] = <<>> /\ childHeld[p] = {}
Poll(p) == pipes[p] # <<>> \/ AtEOF(p)

\* a slip: bytes reported as if they were bits
ThroughputGbps_nobits(bytes, elapsed) ==
    [num |-> bytes, den |-> elapsed * (1000000000 \div MsPerSec)]

\* throughput_gbps = (interval_bytes * 8) / (elapsed * 1e9), as a fraction;
\* elapsed is in milliseconds
ThroughputGbps(bytes, elapsed) ==
    [num |-> bytes * 8, den |-> elapsed * (1000000000 \div MsPerSec)]

\* cps = interval_completed / elapsed, as a fraction
Cps(completed, elapsed) == [num |-> completed * MsPerSec, den |-> elapsed]

\* lines 143-148: SIGINT is set to be ignored in the calling process, then
\* the clock is read and the window starts empty
AggStart ==
    /\ supPc = "aggregate" /\ aggPc = "idle"
    /\ start_time' = now
    /\ last_time' = now
    /\ interval_bytes' = 0
    /\ interval_completed' = 0
    /\ aggPc' = "top"
    /\ sigintHandler' = "ignore"
    /\ UNCHANGED <<inputVars, pureVars, interrupted, sel, now, supVars, wk,
                   chanVars, pipeIdx, current_time, drained, reports>>

\* lines 150-156: read the clock, leave at the deadline, else start the drain
AggTop ==
    /\ aggPc = "top"
    /\ current_time' = now
    /\ IF now - start_time > duration * MsPerSec
           THEN aggPc' = "done" /\ UNCHANGED pipeIdx
           ELSE aggPc' = "poll" /\ pipeIdx' = 1
    /\ UNCHANGED <<inputVars, pureVars, sigVars, sel, now, supVars, wk,
                   chanVars, start_time,
                   last_time, interval_bytes, interval_completed, drained, reports>>

\* lines 156-157: `while pipe.poll()` on the current pipe, the next pipe when
\* it has nothing, the report step after the last pipe
AggPoll ==
    /\ aggPc = "poll"
    /\ IF pipeIdx > spawned
           THEN aggPc' = "report" /\ UNCHANGED pipeIdx
           ELSE IF Poll(pipeIdx)
                    THEN aggPc' = "recv" /\ UNCHANGED pipeIdx
                    ELSE aggPc' = "poll" /\ pipeIdx' = pipeIdx + 1
    /\ UNCHANGED <<inputVars, pureVars, sigVars, sel, now, supVars, wk,
                   chanVars, start_time,
                   last_time, current_time, interval_bytes, interval_completed,
                   drained, reports>>

\* a slip: the sample is read and left in the channel
AfterRecv_peek(queue) == queue

\* line 159: pipe.recv() takes the oldest sample out of the channel
AfterRecv(queue) == Tail(queue)

\* lines 158-163: pipe.recv() adds a sample to the window; on end-of-stream it
\* raises EOFError and `continue` goes back to `while pipe.poll()`
AggRecv ==
    /\ aggPc = "recv"
    /\ IF pipes[pipeIdx] # <<>>
           THEN LET sample == Head(pipes[pipeIdx])
                IN  /\ pipes' = [pipes EXCEPT ![pipeIdx] = AfterRecv(@)]
                    /\ interval_bytes' = interval_bytes + sample[1]
                    /\ interval_completed' = interval_completed + sample[2]
                    /\ drained' = Append(drained, [pipe |-> pipeIdx, sample |-> sample])
           ELSE UNCHANGED <<pipes, interval_bytes, interval_completed, drained>>
    /\ aggPc' = "poll"
    /\ UNCHANGED <<inputVars, pureVars, sigVars, sel, now, supVars, wk,
                   childHeld, nsent, pipeIdx,
                   start_time, last_time, current_time, reports>>

\* a slip: a report at every round in which the clock has moved
ReportDue_anytime(current, last) == current - last > 0

\* line 166: current_time - last_time >= 1.0
ReportDue(current, last) == current - last >= MsPerSec

\* lines 165-181: the report once a second, then the sleep before the next round
AggReport ==
    /\ aggPc = "report"
    /\ IF ReportDue(current_time, last_time)
           THEN LET elapsed == current_time - last_time
                IN  /\ reports' = Append(reports,
                            [time |-> current_time - start_time,
                             elapsed |-> elapsed,
                             cps |-> Cps(interval_completed, elapsed),
                             throughput_gbps |-> ThroughputGbps(interval_bytes, elapsed),
                             samples |-> drained])
                    /\ interval_bytes' = 0
                    /\ interval_completed' = 0
                    /\ last_time' = current_time
                    /\ drained' = <<>>
           ELSE UNCHANGED <<reports, interval_bytes, interval_completed,
                            last_time, drained>>
    /\ aggPc' = "top"
    /\ UNCHANGED <<inputVars, pureVars, sigVars, sel, now, supVars, wk,
                   chanVars, pipeIdx,
                   start_time, current_time>>

AggStep == AggStart \/ AggTop \/ AggPoll \/ AggRecv \/ AggReport

----------------------------------------------------------------------------
(* Specification of the aggregator on synthetic channels: samples of any    *)
(* content arrive on any channel at any time, and any channel may reach     *)
(* end-of-stream                                                            *)

SyntheticSamples == { <<0, 1>>, <<62500000, 5>> }
ProcCounts == {1, 2}
AggDurations == {1, 2}

AggInit ==
    /\ config = <<>> /\ https_percent = 0 /\ avg_object_size_mb = 200
    /\ sel = NoCall
    /\ max_connections = 1
    /\ duration \in AggDurations
    /\ process_count \in ProcCounts
    /\ now = 0
    /\ supPc = "aggregate"
    /\ spawned = process_count
    /\ procState = [p \in Procs |-> "running"]
    /\ wk = [p \in Procs |-> <<>>]
    /\ pipes = [p \in Procs |-> <<>>]
    /\ childHeld = [p \in Procs |-> {"worker"}]
    /\ parentOpen = [p \in Procs |-> TRUE]
    /\ nsent = 0
    /\ aggPc = "idle" /\ pipeIdx = 0
    /\ start_time = 0 /\ last_time = 0 /\ current_time = 0
    /\ interval_bytes = 0 /\ interval_completed = 0
    /\ drained = <<>> /\ reports = <<>>
    /\ sigintHandler = "default" /\ interrupted = FALSE
    /\ shares = <<>> /\ variants = NoVariants

\* a writer puts one sample on its channel
Deliver(p, sample) ==
    /\ childHeld[p] # {}
    /\ Len(pipes[p]) < PipeCap
    /\ nsent < MaxSends
    /\ pipes' = [pipes EXCEPT ![p] = Append(@, sample)]
    /\ nsent' = nsent + 1
    /\ UNCHANGED <<inputVars, pureVars, sigVars, sel, now, supVars, wk, childHeld, aggVars>>

\* the sending end of a channel is closed: its writer exited or was killed
CloseEnd(p) ==
    /\ childHeld[p] # {}
    /\ childHeld' = [childHeld EXCEPT ![p] = {}]
    /\ UNCHANGED <<inputVars, pureVars, sigVars, sel, now, supVars, wk, pipes, nsent, aggVars>>

AggNext ==
    \/ AggStep
    \/ Tick
    \/ \E p \in Procs, sample \in SyntheticSamples : Deliver(p, sample)
    \/ \E p \in Procs : CloseEnd(p)

AggSpec == AggInit /\ [][AggNext]_vars

\* the aggregator is a running thread of control and the clock advances
FairAggSpec == AggSpec /\ WF_vars(AggStep) /\ WF_vars(Tick)

----------------------------------------------------------------------------
(* fetch_url and connection_worker, lines 11-18 and 106-115 *)

NewWorker == [pc |-> "select", index |-> 0, data_size |-> 0, failed |-> FALSE]

\* response.content_length when the server announces a length: the length in
\* bytes of the file served, whatever the manifest says of it; here the file
\* of 2048KB that gen_content lists as 2.00MB
ContentLengths == {2048 * KbPerMb}

\* a slip: fetch_url lets the exception out, and the handler of
\* connection_worker catches it: no sample, a pause
FetchFailed_raises(w) ==
    [w EXCEPT !.pc = "sleep", !.data_size = 0, !.failed = TRUE]

\* lines 16-18: any exception of the request is caught, logged, and 0 returned
FetchFailed(w) ==
    [w EXCEPT !.pc = "send", !.data_size = 0, !.failed = TRUE]

\* lines 13-15: response.content_length or 0
FetchDone(w, length) ==
    [w EXCEPT !.pc = "send", !.data_size = length, !.failed = FALSE]

\* a slip: the exception of create_request_url is not caught and ends the
\* connection worker
AfterSelect_leaves(o) ==
    IF o.status = "ok"
        THEN [NewWorker EXCEPT !.pc = "fetch", !.index = o.index]
        ELSE [NewWorker EXCEPT !.pc = "exited"]

\* lines 108-115: with a URL the worker goes on to fetch it; an exception of
\* create_request_url is caught on line 113 and the worker goes to its pause
AfterSelect(o) ==
    IF o.status = "ok"
        THEN [NewWorker EXCEPT !.pc = "fetch", !.index = o.index]
        ELSE [NewWorker EXCEPT !.pc = "sleep"]

\* line 109: a URL, or an exception caught on line 113 followed by the pause
WorkerSelect(p, w) ==
    /\ procState[p] = "running"
    /\ wk[p][w].pc = "select"
    /\ \E o \in create_request_url(config, https_percent, avg_object_size_mb) :
           wk' = [wk EXCEPT ![p][w] = AfterSelect(o)]
    /\ UNCHANGED <<inputVars, pureVars, sigVars, sel, now, supVars, chanVars, aggVars>>

\* line 110: the request ends: with the announced length, with 0 when the
\* length announced is None or 0 (line 15), or with a transport failure
WorkerFetch(p, w) ==
    /\ procState[p] = "running"
    /\ wk[p][w].pc = "fetch"
    /\ \/ \E length \in ContentLengths :
              wk' = [wk EXCEPT ![p][w] = FetchDone(@, length)]
       \/ wk' = [wk EXCEPT ![p][w] = FetchDone(@, 0)]
       \/ wk' = [wk EXCEPT ![p][w] = FetchFailed(@)]
    /\ UNCHANGED <<inputVars, pureVars, sigVars, sel, now, supVars, chanVars, aggVars>>

\* line 112: stats_pipe.send((data_size, 1)), then the next iteration
WorkerSend(p, w) ==
    /\ procState[p] = "running"
    /\ wk[p][w].pc = "send"
    /\ Len(pipes[p]) < PipeCap
    /\ nsent < RunSends
    /\ pipes' = [pipes EXCEPT ![p] = Append(@, <<wk[p][w].data_size, 1>>)]
    /\ nsent' = nsent + 1
    /\ wk' = [wk EXCEPT ![p][w] = [@ EXCEPT !.pc = "select", !.data_size = 0]]
    /\ UNCHANGED <<inputVars, pureVars, sigVars, sel, now, supVars, childHeld, aggVars>>

\* line 115: asyncio.sleep(0.1) is over
WorkerWake(p, w) ==
    /\ procState[p] = "running"
    /\ wk[p][w].pc = "sleep"
    /\ wk' = [wk EXCEPT ![p][w] = [@ EXCEPT !.pc = "select"]]
    /\ UNCHANGED <<inputVars, pureVars, sigVars, sel, now, supVars, chanVars, aggVars>>

\* a worker process dies before the supervisor stops it (a crash, a kill from
\* outside): its copy of the sending end closes
ProcessDies(p) ==
    /\ procState[p] = "running"
    /\ procState' = [procState EXCEPT ![p] = "dead"]
    /\ childHeld' = [childHeld EXCEPT ![p] = @ \ {"worker"}]
    /\ UNCHANGED <<inputVars, pureVars, sigVars, sel, now, supPc, spawned,
                   parentOpen, wk, pipes,
                   nsent, aggVars>>

----------------------------------------------------------------------------
(* run_client, lines 199-230 *)

\* connections_per_process = max(1, max_connections // process_count)
connections_per_process ==
    IF max_connections \div process_count > 1
        THEN max_connections \div process_count ELSE 1

\* lines 213-222, one iteration: a new pipe, a new process, started.  Binding
\* child_pipe to the new pipe drops the supervisor's last reference to the
\* previous sending end, which closes it; the last one stays held.
Spawn ==
    /\ supPc = "spawn"
    /\ spawned < process_count
    /\ LET i == spawned + 1
       IN  /\ spawned' = i
           /\ pipes' = [pipes EXCEPT ![i] = <<>>]
           /\ parentOpen' = [parentOpen EXCEPT ![i] = TRUE]
           /\ childHeld' = [p \in Procs |->
                                IF p = i THEN {"supervisor", "worker"}
                                ELSE childHeld[p] \ {"supervisor"}]
           /\ procState' = [procState EXCEPT ![i] = "running"]
           /\ wk' = [wk EXCEPT ![i] =
                         [w \in 1..connections_per_process |-> NewWorker]]
           /\ shares' = Append(shares, connections_per_process)
           /\ supPc' = "spawn"
    /\ UNCHANGED <<inputVars, variants, sigVars, sel, now, nsent, aggVars>>

\* a slip: the finally clause leaves the processes alone
Terminate_noop(state) == state

\* line 227: p.terminate() stops a process that is still running
Terminate(state) == IF state = "running" THEN "terminated" ELSE state

\* lines 213-222, an iteration in which p.start() raises: the pipe was made
\* and the process object appended, no process runs; the loop is outside the
\* try of line 224, so the exception leaves run_client with nothing undone
SpawnFails ==
    /\ supPc = "spawn"
    /\ spawned < process_count
    /\ LET i == spawned + 1
       IN  /\ pipes' = [pipes EXCEPT ![i] = <<>>]
           /\ parentOpen' = [parentOpen EXCEPT ![i] = TRUE]
           /\ childHeld' = [p \in Procs |->
                                IF p = i THEN {"supervisor"}
                                ELSE childHeld[p] \ {"supervisor"}]
    /\ supPc' = "spawn_failed"
    /\ UNCHANGED <<inputVars, pureVars, sigVars, sel, now, spawned, procState,
                   wk, nsent, aggVars>>

\* lines 224-225: the loop is over, the try statement is entered and
\* aggregate_statistics is called
EnterTry ==
    /\ supPc = "spawn"
    /\ spawned = process_count
    /\ supPc' = "aggregate"
    /\ UNCHANGED <<inputVars, pureVars, sigVars, sel, now, spawned, procState,
                   parentOpen, wk, chanVars, aggVars>>

\* lines 224-230, the finally clause, entered when aggregate_statistics
\* returned or raised: terminate every process, close every parent_pipe; then
\* run_client returns, or the exception goes on to the caller.  The clause
\* never closes child_pipe: the terminated workers' copies of the sending
\* ends are gone, and the supervisor's copy of the last one closes only when
\* the frame of run_client is released, which the return does and the
\* exception, whose traceback keeps the frame, does not.
Shutdown ==
    /\ supPc = "aggregate" /\ aggPc \in {"done", "raised"}
    /\ procState' = [p \in Procs |-> Terminate(procState[p])]
    /\ childHeld' = [p \in Procs |->
                         IF aggPc = "done" THEN {}
                         ELSE childHeld[p] \ {"worker"}]
    /\ parentOpen' = [p \in Procs |-> FALSE]
    /\ supPc' = IF aggPc = "done" THEN "done" ELSE "raised"
    /\ UNCHANGED <<inputVars, pureVars, sigVars, sel, now, spawned, wk, pipes,
                   nsent, aggVars>>

\* a SIGINT reaches the supervisor.  Under the default disposition Python
\* raises KeyboardInterrupt where the main thread stands.  Anywhere in the
\* spawn loop, the return of the last p.start() included, the exception
\* leaves run_client with nothing undone, the loop being outside the try; it
\* may come after the pipe of the iteration was made (line 214) and before
\* its process is started.  Between line 224 and line 143 it is raised
\* inside the try.  From line 143 on the disposition is SIG_IGN and the signal
\* is discarded.  The worker processes ignore SIGINT (line 184).
Interrupt ==
    /\ ~interrupted
    /\ supPc \in {"spawn", "aggregate"}
    /\ interrupted' = TRUE
    /\ IF sigintHandler = "ignore"
           THEN UNCHANGED <<supPc, aggPc, pipes, parentOpen, childHeld>>
           ELSE IF supPc = "spawn"
                    THEN /\ supPc' = "interrupted"
                         /\ UNCHANGED aggPc
                         /\ \/ UNCHANGED <<pipes, parentOpen, childHeld>>
                            \/ /\ spawned < process_count
                               /\ LET i == spawned + 1
                                  IN  /\ pipes' = [pipes EXCEPT ![i] = <<>>]
                                      /\ parentOpen' =
                                             [parentOpen EXCEPT ![i] = TRUE]
                                      /\ childHeld' = [p \in Procs |->
                                             IF p = i THEN {"supervisor"}
                                             ELSE childHeld[p] \ {"supervisor"}]
                    ELSE /\ aggPc' = "raised"
                         /\ UNCHANGED <<supPc, pipes, parentOpen, childHeld>>
    /\ UNCHANGED <<inputVars, pureVars, sigintHandler, sel, now, spawned,
                   procState, wk, nsent, pipeIdx, start_time, last_time,
                   current_time, interval_bytes, interval_completed, drained,
                   reports>>

----------------------------------------------------------------------------
(* Specification of a whole run *)

Path_a_bin == <<"a", ".", "b", "i", "n">>

RunManifests == { <<>>, << <<Path_a_bin, 200>> >> }
RunConnections == {2}
RunProcCounts == {1, 2}

Init ==
    /\ config \in RunManifests
    /\ https_percent = 50 /\ avg_object_size_mb = 200
    /\ sel = NoCall
    /\ max_connections \in RunConnections
    /\ duration = 1
    /\ process_count \in RunProcCounts
    /\ now = 0
    /\ supPc = "spawn"
    /\ spawned = 0
    /\ procState = [p \in Procs |-> "none"]
    /\ wk = [p \in Procs |-> <<>>]
    /\ pipes = [p \in Procs |-> <<>>]
    /\ childHeld = [p \in Procs |-> {}]
    /\ parentOpen = [p \in Procs |-> FALSE]
    /\ nsent = 0
    /\ aggPc = "idle" /\ pipeIdx = 0
    /\ start_time = 0 /\ last_time = 0 /\ current_time = 0
    /\ interval_bytes = 0 /\ interval_completed = 0
    /\ drained = <<>> /\ reports = <<>>
    /\ sigintHandler = "default" /\ interrupted = FALSE
    /\ shares = <<>> /\ variants = NoVariants

WorkerStep(p, w) ==
    WorkerSelect(p, w) \/ WorkerFetch(p, w) \/ WorkerSend(p, w) \/ WorkerWake(p, w)

Next ==
    \/ Spawn
    \/ SpawnFails
    \/ EnterTry
    \/ AggStep
    \/ Shutdown
    \/ Tick
    \/ \E p \in Procs : \E w \in DOMAIN wk[p] : WorkerStep(p, w)
    \/ \E p \in Procs : ProcessDies(p)

Spec == Init /\ [][Next]_vars

----------------------------------------------------------------------------
(* Specification of a run during which a SIGINT may reach the supervisor:   *)
(* on one CPU with either manifest, on two CPUs with the empty manifest      *)

SigInit == Init /\ (process_count = 1 \/ config = <<>>)

SigNext == Next \/ Interrupt

SigSpec == SigInit /\ [][SigNext]_vars

----------------------------------------------------------------------------
(* Specification of the selector alone: any manifest, any call *)

SelInit ==
    /\ config \in Manifests
    /\ https_percent \in Mixes
    /\ avg_object_size_mb \in Affinities
    /\ sel = NoCall
    /\ max_connections = 1 /\ duration = 1 /\ process_count = 1
    /\ now = 0
    /\ supPc = "spawn" /\ spawned = 0
    /\ procState = [p \in Procs |-> "none"]
    /\ wk = [p \in Procs |-> <<>>]
    /\ pipes = [p \in Procs |-> <<>>]
    /\ childHeld = [p \in Procs |-> {}]
    /\ parentOpen = [p \in Procs |-> FALSE]
    /\ nsent = 0
    /\ aggPc = "idle" /\ pipeIdx = 0
    /\ start_time = 0 /\ last_time = 0 /\ current_time = 0
    /\ interval_bytes = 0 /\ interval_completed = 0
    /\ drained = <<>> /\ reports = <<>>
    /\ sigintHandler = "default" /\ interrupted = FALSE
    /\ shares = <<>> /\ variants = NoVariants

Select ==
    /\ sel = NoCall
    /\ sel' \in create_request_url(config, https_percent, avg_object_size_mb)
    /\ UNCHANGED <<inputVars, pureVars, sigVars, now, supVars, wk, chanVars, aggVars>>

SelNext == Select

SelSpec == SelInit /\ [][SelNext]_vars

----------------------------------------------------------------------------
(* Specification of the spawn loop alone: any connection count on any number *)
(* of CPUs                                                                   *)

MaxConnections == 8     \* largest max_connections drawn
MaxProcs == 4           \* largest os.cpu_count() drawn

PartInit ==
    /\ config = <<>> /\ https_percent = 50 /\ avg_object_size_mb = 200
    /\ sel = NoCall
    /\ max_connections \in 1..MaxConnections
    /\ duration = 1
    /\ process_count \in 1..MaxProcs
    /\ now = 0
    /\ supPc = "spawn" /\ spawned = 0
    /\ procState = [p \in Procs |-> "none"]
    /\ wk = [p \in Procs |-> <<>>]
    /\ pipes = [p \in Procs |-> <<>>]
    /\ childHeld = [p \in Procs |-> {}]
    /\ parentOpen = [p \in Procs |-> FALSE]
    /\ nsent = 0
    /\ aggPc = "idle" /\ pipeIdx = 0
    /\ start_time = 0 /\ last_time = 0 /\ current_time = 0
    /\ interval_bytes = 0 /\ interval_completed = 0
    /\ drained = <<>> /\ reports = <<>>
    /\ sigintHandler = "default" /\ interrupted = FALSE
    /\ shares = <<>> /\ variants = NoVariants

PartNext == Spawn

PartSpec == PartInit /\ [][PartNext]_vars

----------------------------------------------------------------------------
(* Specification of create_size_variants alone: a call with any base size *)

BaseSizes == {1, 2, 3, 5, 10, 20, 40, 100}

VariantsInit ==
    /\ config = <<>> /\ https_percent = 50 /\ avg_object_size_mb = 200
    /\ sel = NoCall
    /\ max_connections = 1 /\ duration = 1 /\ process_count = 1
    /\ now = 0
    /\ supPc = "spawn" /\ spawned = 0
    /\ procState = [p \in Procs |-> "none"]
    /\ wk = [p \in Procs |-> <<>>]
    /\ pipes = [p \in Procs |-> <<>>]
    /\ childHeld = [p \in Procs |-> {}]
    /\ parentOpen = [p \in Procs |-> FALSE]
    /\ nsent = 0
    /\ aggPc = "idle" /\ pipeIdx = 0
    /\ start_time = 0 /\ last_time = 0 /\ current_time = 0
    /\ interval_bytes = 0 /\ interval_completed = 0
    /\ drained = <<>> /\ reports = <<>>
    /\ sigintHandler = "default" /\ interrupted = FALSE
    /\ shares = <<>>
    /\ \E b \in BaseSizes :
           variants = [NoVariants EXCEPT !.pc = "call", !.base_size_kb = b]

VariantsNext == VariantsEnter \/ VariantsLoop

VariantsSpec == VariantsInit /\ [][VariantsNext]_vars

----------------------------------------------------------------------------
(* Properties of create_request_url, checked under SelSpec *)

Range(s) == {s[k] : k \in 1..Len(s)}

Called == sel # NoCall

ManifestPaths == {config[k][1] : k \in 1..Len(config)}

\* how many times index k stands in a pool
PoolCount(pool, k) == Cardinality({j \in 1..Len(pool) : pool[j] = k})

\* the manifest indices whose file has one type
OfType(ftype) == {k \in 1..Len(config) : FileType(config[k][1]) = ftype}

\* how many members of a list of indices belong to a set of indices
CountIn(idxs, set) == Cardinality({j \in 1..Len(idxs) : idxs[j] \in set})

\* the paths a call on the current inputs can return
PossiblePaths ==
    {o.path : o \in {r \in create_request_url(config, https_percent,
                                               avg_object_size_mb) :
                         r.status = "ok"}}

Path_b_zip == <<"b", ".", "z", "i", "p">>
Path_c_docx == <<"c", ".", "d", "o", "c", "x">>

\* manifest = [("a.bin", 1MB), ("b.zip", 2MB), ("c.docx", 4MB)]
ScenarioManifest == << <<Path_a_bin, 100>>, <<Path_b_zip, 200>>, <<Path_c_docx, 400>> >>

\* C1: for every non-empty manifest and every size_affinity a call returns
\* without raising, and the path of the URL is the path of a manifest entry.
C1_AlwaysReturnsManifestPath ==
    (Called /\ config # <<>>) =>
        (sel.status = "ok" /\ sel.path \in ManifestPaths)

\* C2: with an empty weighted pool and a non-empty manifest the call falls back
\* to the whole manifest: it does not raise, and every entry is a possible result.
C2_FallbackNeverRaises ==
    (Called /\ config # <<>> /\ weighted_files(config, avg_object_size_mb) = <<>>) =>
        (sel.status = "ok" /\ PossiblePaths = ManifestPaths)

\* C3: the close set is inclusive at 0.5 x and 1.5 x size_affinity; in the
\* scenario manifest with size_affinity 2MB the possible results are exactly
\* a.bin and b.zip, with equal pool share.
C3_CloseSetInclusive ==
    LET close == close_files(config, avg_object_size_mb)
        pool == weighted_files(config, avg_object_size_mb)
    IN  Called =>
        /\ \A k \in 1..Len(config) :
               2 * Abs(config[k][2] - avg_object_size_mb) = avg_object_size_mb
                   => k \in Range(close)
        /\ (config = ScenarioManifest /\ avg_object_size_mb = 200) =>
               /\ PossiblePaths = {Path_a_bin, Path_b_zip}
               /\ PoolCount(pool, 1) = PoolCount(pool, 2)
               /\ PoolCount(pool, 3) = 0

\* C4: with no entry close to size_affinity the candidates are the whole
\* manifest; otherwise they are exactly the close entries, and while a close
\* entry has positive weight nothing outside the close set is returned.
C4_CandidateSet ==
    LET close == close_files(config, avg_object_size_mb)
        cands == candidate_files(config, avg_object_size_mb)
        pool == weighted_files(config, avg_object_size_mb)
        inPool == Range(pool)
    IN  Called =>
        /\ close = <<>> =>
               /\ Range(cands) = 1..Len(config)
               /\ \A k \in 1..Len(config) :
                      file_weights(FileType(config[k][1])) > 0 => k \in inPool
        /\ close # <<>> =>
               /\ cands = close
               /\ inPool \subseteq Range(close)
               /\ ((\E k \in Range(close) :
                        file_weights(FileType(config[k][1])) > 0) /\ sel.status = "ok")
                      => sel.index \in Range(close)

\* the fallback on an unlucky size distribution acted: nothing is close, several
\* entries, and an entry was returned
C4_Witness ==
    /\ Called /\ close_files(config, avg_object_size_mb) = <<>> /\ Len(config) >= 2
    /\ sel.status = "ok"

\* C5: a candidate bin or zip file stands 40 times in the pool, a docx file 20
\* times, any other file 0 times; equal numbers of bin, zip and docx candidates
\* give pool fractions 0.4, 0.4, 0.2; a zero-weight file is never returned
\* while a candidate has positive weight.
C5_PoolWeights ==
    LET cands == candidate_files(config, avg_object_size_mb)
        pool == weighted_files(config, avg_object_size_mb)
        inCands == Range(cands)
        bins == OfType(Str_bin)
        zips == OfType(Str_zip)
        docxs == OfType(Str_docx)
        nbin == CountIn(cands, bins)
        nzip == CountIn(cands, zips)
        ndocx == CountIn(cands, docxs)
    IN  Called =>
        /\ \A k \in 1..Len(config) :
               PoolCount(pool, k) =
                   (CASE k \notin inCands -> 0
                      [] k \in inCands /\ k \in bins \cup zips -> 40
                      [] k \in inCands /\ k \in docxs -> 20
                      [] OTHER -> 0)
        /\ (nbin > 0 /\ nbin = nzip /\ nzip = ndocx) =>
               /\ 10 * CountIn(pool, bins) = 4 * Len(pool)
               /\ 10 * CountIn(pool, zips) = 4 * Len(pool)
               /\ 10 * CountIn(pool, docxs) = 2 * Len(pool)
        /\ (pool # <<>> /\ sel.status = "ok") =>
               FileType(sel.path) \in {Str_bin, Str_zip, Str_docx}

\* one bin, one zip and one docx candidate, and a file was returned
C5_Witness ==
    LET cands == candidate_files(config, avg_object_size_mb)
    IN  /\ Called /\ sel.status = "ok"
        /\ CountIn(cands, OfType(Str_bin)) = 1
        /\ CountIn(cands, OfType(Str_zip)) = 1
        /\ CountIn(cands, OfType(Str_docx)) = 1

\* C6: a returned URL pairs https with 8443 or http with 8080; the scheme is
\* https exactly when the draw is below protocol_mix, so a mix of 0 never gives
\* https and a mix of 100 always does.
C6_SchemeAndPort ==
    (Called /\ sel.status = "ok") =>
        /\ \/ sel.scheme = "https" /\ sel.port = 8443
           \/ sel.scheme = "http" /\ sel.port = 8080
        /\ sel.scheme = "https" <=> sel.draw * 100 < https_percent * RandRes
        /\ https_percent = 0 => sel.scheme = "http"
        /\ https_percent = 100 => sel.scheme = "https"

\* a mixed run chose the encrypted transport on a draw above zero
C6_Witness ==
    /\ Called /\ sel.status = "ok"
    /\ https_percent = 50 /\ sel.scheme = "https" /\ sel.draw > 0

----------------------------------------------------------------------------
(* Properties of aggregate_statistics, checked under AggSpec / FairAggSpec *)

RECURSIVE SumBytes(_)
SumBytes(seq) ==
    IF seq = <<>> THEN 0 ELSE Head(seq).sample[1] + SumBytes(Tail(seq))

RECURSIVE SumCompleted(_)
SumCompleted(seq) ==
    IF seq = <<>> THEN 0 ELSE Head(seq).sample[2] + SumCompleted(Tail(seq))

\* C7: aggregate_statistics terminates once the duration has elapsed, whatever
\* the workers do: sending, killed, or with their channel end closed.
C7_Terminates == <>(aggPc = "done")

\* C8: each report prints throughput = 8 x (bytes of the samples drained since
\* the previous report) / (elapsed x 1e9) and cps = (their completions) /
\* elapsed, whatever the channels and the order; 125000000 bytes and 10
\* completions in a 1 second window give 1.0 Gbps and 10.0 CPS.
C8_ReportFormula ==
    \A i \in 1..Len(reports) :
        LET r == reports[i]
            bytes == SumBytes(r.samples)
            completed == SumCompleted(r.samples)
        IN  /\ r.throughput_gbps.num = 8 * bytes
            /\ r.throughput_gbps.den = r.elapsed * 1000000
            /\ r.cps.num = completed * 1000
            /\ r.cps.den = r.elapsed
            /\ (bytes = 125000000 /\ completed = 10 /\ r.elapsed = 1000) =>
                   /\ r.throughput_gbps.num = 1 * r.throughput_gbps.den
                   /\ r.cps.num = 10 * r.cps.den

\* a report over a 1 second window whose samples, from two channels, total
\* 125000000 bytes and 10 completions
C8_Witness ==
    \E i \in 1..Len(reports) :
        /\ reports[i].elapsed = 1000
        /\ SumBytes(reports[i].samples) = 125000000
        /\ SumCompleted(reports[i].samples) = 10
        /\ \E j, k \in 1..Len(reports[i].samples) :
               reports[i].samples[j].pipe # reports[i].samples[k].pipe

----------------------------------------------------------------------------
(* Properties of a whole run, checked under Spec *)

\* C9: with an empty manifest run_client aborts at startup, before a worker
\* process is spawned and before the aggregator starts.
C9_EmptyManifestFailsFast ==
    config = <<>> =>
        /\ spawned = 0
        /\ \A p \in Procs : procState[p] = "none"
        /\ aggPc = "idle"

\* C10: a fetch that fails at the transport level makes the worker send exactly
\* one sample (0, 1) on its channel, without a retry, and go on to its next
\* iteration; no worker ever leaves its loop.
C10_FailureIsZeroByteCompletion ==
    [][\A p \in Procs : \A w \in (DOMAIN wk[p]) \cap (DOMAIN wk'[p]) :
           LET a == wk[p][w]
               b == wk'[p][w]
           IN  /\ (a.pc = "fetch" /\ a # b /\ b.failed) =>
                      (b.pc = "send" /\ b.data_size = 0 /\ pipes'[p] = pipes[p])
               /\ (a.pc = "send" /\ a # b) =>
                      /\ b.pc = "select"
                      /\ pipes'[p] = Append(pipes[p], <<a.data_size, 1>>)
                      /\ a.failed => a.data_size = 0
               /\ b.pc \in {"select", "fetch", "send", "sleep"}]_vars

\* a worker whose fetch failed has sent (0, 1) and stands at its next iteration
C10_Witness ==
    \E p \in Procs : \E w \in DOMAIN wk[p] :
        /\ wk[p][w].failed /\ wk[p][w].pc = "select"
        /\ \E k \in 1..Len(pipes[p]) : pipes[p][k] = <<0, 1>>

----------------------------------------------------------------------------
(* Properties of the spawn loop (PartSpec), of create_size_variants          *)
(* (VariantsSpec), of the shutdown, the signals and the samples of a run     *)
(* (Spec, SigSpec) and of the reports (AggSpec)                              *)

\* the sum of a sequence of numbers
RECURSIVE SumSeq(_)
SumSeq(seq) == IF seq = <<>> THEN 0 ELSE Head(seq) + SumSeq(Tail(seq))

Max(a, b) == IF a >= b THEN a ELSE b

\* C11: once the spawn loop is over, every process has a share of at least 1,
\* any two shares differ by at most 1, the shares sum to max_connections
\* whenever max_connections >= process_count, and the total number of
\* connection workers is at most max(max_connections, process_count).
C11_SharesPartitionTotal ==
    spawned = process_count =>
        /\ Len(shares) = process_count
        /\ \A i \in 1..Len(shares) : shares[i] >= 1
        /\ \A i, j \in 1..Len(shares) : Abs(shares[i] - shares[j]) <= 1
        /\ max_connections >= process_count => SumSeq(shares) = max_connections
        /\ SumSeq(shares) <= Max(max_connections, process_count)

\* C20: create_size_variants(20) returns a list that starts at 20KB, in which
\* every next size is exactly double the previous one, and in which no size
\* exceeds 300MB (307200KB).
C20_VariantsWithin300MB ==
    (variants.pc = "return" /\ variants.base_size_kb = 20) =>
        LET sizes == variants.sizes_kb
        IN  /\ sizes # <<>>
            /\ sizes[1] = 20
            /\ \A k \in 1..(Len(sizes) - 1) : sizes[k + 1] = 2 * sizes[k]
            /\ \A k \in 1..Len(sizes) : sizes[k] <= 300 * KbPerMb

\* C12: whenever run_client has ended after the spawn loop completed, be it
\* because the aggregator returned at the deadline or because it raised, no
\* spawned worker process is still running and every supervisor-side pipe end
\* is closed; and no worker process is terminated by the supervisor while the
\* aggregator has not stopped.  The supervisor-side end of a channel is its
\* receiving end, parent_pipe, the one the supervisor reads; the copy of the
\* last sending end that its frame still names is not among them.
C12_FinallyStopsEverything ==
    /\ supPc \in {"done", "raised"} =>
           \A p \in Procs : procState[p] \in {"terminated", "dead"}
                            /\ ~parentOpen[p]
    /\ (\E p \in Procs : procState[p] = "terminated") =>
           aggPc \in {"done", "raised"}

C12_Witness ==
    /\ supPc = "raised" /\ aggPc = "raised"
    /\ process_count = 2
    /\ \A p \in Procs : procState[p] = "terminated" /\ ~parentOpen[p]

\* the run duration has elapsed since the aggregator read start_time; the
\* worker processes were all started before that reading
DeadlinePassed == aggPc # "idle" /\ now - start_time > duration * MsPerSec

\* C13: once the run duration has elapsed no connection worker starts a new
\* iteration: a worker that stands at the top of its loop selects no new
\* target (and so issues no new request).
C13_NoNewIterationAfterDeadline ==
    [][DeadlinePassed =>
           \A p \in Procs : \A w \in DOMAIN wk[p] :
               wk[p][w].pc = "select" => wk'[p][w].pc = "select"]_vars

\* C14: when pipe.recv() reports end-of-stream on a channel, the aggregator
\* leaves that channel's drain step: its next poll is on another channel (or
\* the drain is over), never on the channel that ended.
C14_EndOfStreamLeavesDrain ==
    [][(aggPc = "recv" /\ AtEOF(pipeIdx) /\ aggPc' # "recv") =>
           (aggPc' = "poll" => pipeIdx' # pipeIdx)]_vars

\* C15: when p.start() has failed in the spawn loop, the run is aborted as a
\* whole: no worker process started before the failure is still running, and
\* no connection worker has a request in flight.
C15_SpawnFailureAborts ==
    supPc = "spawn_failed" =>
        \A p \in Procs :
            /\ procState[p] # "running"
            /\ \A w \in DOMAIN wk[p] : wk[p][w].pc # "fetch"

\* C16: a SIGINT delivered to the supervisor while the run is in progress
\* stops the aggregation: after it the aggregator begins no further round of
\* draining, whatever time is left before the deadline.
C16_InterruptStopsAggregation ==
    [][(interrupted /\ aggPc = "top") => aggPc' # "poll"]_vars

\* the samples the aggregator has received so far: those of the printed
\* reports and those of the window in progress
Consumed ==
    Len(drained) + SumSeq([i \in 1..Len(reports) |-> Len(reports[i].samples)])

\* the samples sent and still in their channels
InChannels == SumSeq([p \in Procs |-> Len(pipes[p])])

\* run_client has returned
RunEnded == supPc = "done"

\* C17 as stated: every sample sent is received exactly once, and when the
\* run has ended no sample sent is left unreceived.
C17_EverySampleConsumedOnce ==
    /\ Consumed <= nsent
    /\ RunEnded => Consumed = nsent

\* C17, amended: every sample sent is received at most once: at any time it
\* either is still in its channel or has been added to the window exactly
\* once, the window counters being the sums over the samples received since
\* the last report.
C17_ConsumedAtMostOnce ==
    /\ Consumed + InChannels = nsent
    /\ interval_bytes = SumBytes(drained)
    /\ interval_completed = SumCompleted(drained)

\* a run that ended with one sample reported or in the window and another
\* left in its channel
C17_Witness ==
    /\ supPc = "done"
    /\ Consumed >= 1
    /\ InChannels >= 1

\* the clock reading, from start_time, at which report i-1 was printed
PreviousReportTime(i) == IF i = 1 THEN 0 ELSE reports[i - 1].time

\* C18: a report is printed only when at least 1 second has passed since the
\* previous one (since the start, for the first), and both window counters
\* are reset at each report, so that the window holds the samples received
\* since the last report only and every sample received is in one report at
\* most; there are never more report lines than seconds in the duration; the
\* samples received after the last report are in no report: nothing is
\* printed once the loop is left.
C18_ReportsOncePerSecond ==
    /\ [](/\ \A i \in 1..Len(reports) :
                /\ reports[i].elapsed >= MsPerSec
                /\ reports[i].elapsed = reports[i].time - PreviousReportTime(i)
          /\ Len(reports) <= duration
          /\ interval_bytes = SumBytes(drained)
          /\ interval_completed = SumCompleted(drained)
          /\ Consumed + InChannels = nsent)
    /\ [][/\ Len(reports') > Len(reports) =>
                /\ Len(reports') = Len(reports) + 1
                /\ current_time - last_time >= MsPerSec
                /\ reports'[Len(reports')].samples = drained
                /\ interval_bytes' = 0 /\ interval_completed' = 0
                /\ drained' = <<>>
                /\ last_time' = current_time
          /\ aggPc = "done" => reports' = reports /\ drained' = drained]_vars

\* a 2 second run that printed its two reports, the first over samples, and
\* ended with samples received after the second report
C18_Witness ==
    /\ aggPc = "done"
    /\ duration = 2
    /\ Len(reports) = 2
    /\ reports[1].samples # <<>>
    /\ drained # <<>>

\* every call of create_request_url on the run's manifest raises
SelectionAlwaysRaises ==
    \A o \in create_request_url(config, https_percent, avg_object_size_mb) :
        o.status = "raise"

\* C19: a connection worker whose selection raises sends no sample in that
\* iteration and goes to its pause, from which it starts a new iteration: it
\* never leaves its loop.  With a manifest on which selection always raises
\* no sample is ever sent, every report shows zero completions and zero
\* throughput, and run_client returns only after the full duration.
C19_SelectionFailureIsSurvived ==
    /\ [][\A p \in Procs : \A w \in DOMAIN wk[p] :
              LET a == wk[p][w]
                  b == wk'[p][w]
              IN  /\ (a.pc = "select" /\ b # a /\ b.pc # "fetch") =>
                         /\ b.pc = "sleep"
                         /\ pipes' = pipes /\ nsent' = nsent
                  /\ (a.pc = "sleep" /\ b # a) => b.pc = "select"
                  /\ b.pc \in {"select", "fetch", "send", "sleep"}]_vars
    /\ [](SelectionAlwaysRaises =>
              /\ nsent = 0
              /\ \A i \in 1..Len(reports) :
                     /\ reports[i].cps.num = 0
                     /\ reports[i].throughput_gbps.num = 0
              /\ supPc = "done" =>
                     current_time - start_time > duration * MsPerSec)

\* a run on an empty manifest that went through its whole duration: a report
\* was printed, run_client returned, and the worker processes, none of which
\* died, were terminated in their pause
C19_Witness ==
    /\ config = <<>>
    /\ supPc = "done"
    /\ Len(reports) = duration
    /\ \A p \in Procs : /\ procState[p] = "terminated"
                        /\ \E w \in DOMAIN wk[p] : wk[p][w].pc = "sleep"

=============================================================================
